---- MODULE Spec2Model ----
(***************************************************************************)
(* Verification model of the AI data dashboard front end:                  *)
(*   - the API proxy route handlers (app/api/.../route.ts),                *)
(*   - the chat session state (providers/chat-provider.tsx) and the send   *)
(*     flow of the chat panel (components/chat/chat-interface),            *)
(*   - the generate action of the reports page (app/reports/page.tsx) and  *)
(*     the report generation hook it uses,                                 *)
(*   - the field resolution of the chat panel's visualization preview,     *)
(*   - the settings page (app/settings/page) and its local storage,        *)
(*   - the data explorer page (app/explorer/page.tsx).                     *)
(* Each subsystem has its own next-state relation and specification; the   *)
(* variables of the other subsystems stay at their initial values.         *)
(***************************************************************************)
EXTENDS Integers, Sequences, FiniteSets, TLC

VARIABLES
    \* ---- API proxy: one handler invocation
    pxPc,           \* "idle" | "fetching" (suspended at await fetch) | "done"
    pxRoute,        \* the route whose handler runs
    pxBackend,      \* what the backend did with the forwarded request
    pxResp,         \* the NextResponse the handler returned
    pxFetches,      \* number of fetch() calls made by this invocation
    pxReqBody,      \* the request body this invocation was given (history)
    \* ---- chat session (ChatProvider state + ChatInterface state)
    messages,       \* useState<ChatMessage[]>
    conversationId, \* useState<string | null>
    input,          \* ChatInterface: useState("")
    isLoading,      \* ChatInterface: useState(false)
    inflight,       \* handleSendMessage invocations suspended at await fetch
    clock,          \* last value read from Date.now()
    nextSend,       \* number of sends issued so far (history)
    nextSeq,        \* number of addMessage calls so far (history)
    lastOp,         \* the operation that produced this state (history)
    escaped,        \* an error left handleSendMessage uncaught (history)
    \* ---- reports page (ReportsPage state + useReportGeneration)
    reportType,     \* useState(REPORT_TYPES[0].value)
    timePeriod,     \* useState(TIME_PERIODS[0].value)
    notes,          \* useState("")
    generating,     \* useReportGeneration().generating
    rpCalls,        \* number of generateReport calls so far (history)
    rpLast,         \* what the last handleGenerate did (history)
    rpPc,           \* useReportGeneration: "idle" | "creating" | "polling" | "done"
    rpStatus,       \* useReportGeneration().status
    rpError,        \* useReportGeneration().error ("" is null)
    rpTask,         \* the statuses the backend task goes through (history)
    rpScript,       \* the statuses the backend task has not reported yet
    rpPolls,        \* status requests issued for the current task (history)
    rpTerminals,    \* terminal states the current generation reached (history)
    \* ---- visualization preview (one render of VisualizationPreview)
    vzData,         \* visualization.data
    vzConfig,       \* visualization.config
    vzView,         \* what the render returned
    \* ---- settings page
    stStorage,      \* localStorage["dashboard-settings"]
    stSettings,     \* useState<SettingsState>(DEFAULT_SETTINGS)
    stMounted,      \* the load effect has run
    stLast,         \* the operation that produced this state (history)
    stOrigin,       \* what wrote the stored item last (history)
    \* ---- data explorer page
    exTables,       \* useState<string[]>([])
    exSelected,     \* useState<string>("")
    exTableData,    \* useState<any>(null)
    exLoading,      \* useState(true)
    exError,        \* useState<string | null>(null)
    exPending,      \* fetch chains not settled yet
    exIssued,       \* requests issued so far (history)
    exFailed,       \* a request has failed (history)
    \* ---- upload page
    uploads,        \* useState<UploadedFile[]>([])
    upPending,      \* handleFiles invocations suspended at await upload(file)
    upClock,        \* last value read from Date.now()
    upStarted,      \* upload() calls so far (history)
    upLast,         \* the operation that produced this state (history)
    \* ---- dark mode provider
    isDark,         \* useState(false)
    dmMounted,      \* useState(false)
    dmStored,       \* localStorage["dark-mode"]
    dmSystemDark,   \* matchMedia("(prefers-color-scheme: dark)").matches
    dmClass,        \* documentElement has the class "dark"
    dmLast,         \* the operation that produced this state (history)
    dmToggles,      \* toggles so far (history)
    \* ---- analysis page
    anQuery,        \* useState("")
    anHistory,      \* useState<string[]>(SUGGESTED_QUERIES)
    isRunning,      \* useState(false)
    anPending,      \* handleRunAnalysis invocations suspended at await runAnalysis
    anResult,       \* useState<AnalysisResponse | null>(null)
    anError         \* useState<string | null>(null)

pxVars == <<pxPc, pxRoute, pxBackend, pxResp, pxFetches, pxReqBody>>
chatVars ==
    <<messages, conversationId, input, isLoading, inflight, clock, nextSend, nextSeq,
      lastOp, escaped>>
rpVars ==
    <<reportType, timePeriod, notes, generating, rpCalls, rpLast, rpPc, rpStatus, rpError,
      rpTask, rpScript, rpPolls, rpTerminals>>
vzVars == <<vzData, vzConfig, vzView>>
stVars == <<stStorage, stSettings, stMounted, stLast, stOrigin>>
exVars == <<exTables, exSelected, exTableData, exLoading, exError, exPending, exIssued, exFailed>>
upVars == <<uploads, upPending, upClock, upStarted, upLast>>
dmVars == <<isDark, dmMounted, dmStored, dmSystemDark, dmClass, dmLast, dmToggles>>
anVars == <<anQuery, anHistory, isRunning, anPending, anResult, anError>>
vars == <<pxVars, chatVars, rpVars, vzVars, stVars, exVars, upVars, dmVars, anVars>>

\* What a step of one subsystem leaves alone.
ProxyFrame == UNCHANGED <<chatVars, rpVars, vzVars, stVars, exVars, upVars, dmVars, anVars>>
ChatFrame == UNCHANGED <<pxVars, rpVars, vzVars, stVars, exVars, upVars, dmVars, anVars>>
ReportFrame == UNCHANGED <<pxVars, chatVars, vzVars, stVars, exVars, upVars, dmVars, anVars>>
VizFrame == UNCHANGED <<pxVars, chatVars, rpVars, stVars, exVars, upVars, dmVars, anVars>>
SettingsFrame == UNCHANGED <<pxVars, chatVars, rpVars, vzVars, exVars, upVars, dmVars, anVars>>
ExplorerFrame == UNCHANGED <<pxVars, chatVars, rpVars, vzVars, stVars, upVars, dmVars, anVars>>
UploadFrame == UNCHANGED <<pxVars, chatVars, rpVars, vzVars, stVars, exVars, dmVars, anVars>>
DarkModeFrame == UNCHANGED <<pxVars, chatVars, rpVars, vzVars, stVars, exVars, upVars, anVars>>
AnalysisFrame == UNCHANGED <<pxVars, chatVars, rpVars, vzVars, stVars, exVars, upVars, dmVars>>

Null == "null"

(***************************************************************************)
(* JSON.  A JSON value is modelled as a one-member object {k: v}; the      *)
(* value null is the record with k = "null".  A raw body is text;          *)
(* JsonParse is Response.json() / JSON.parse: many raw texts denote the    *)
(* same value and some denote none.                                        *)
(***************************************************************************)
JsonNull == [k |-> "null", v |-> ""]

RawBodies ==
    { "{\"tables\":\"t1\"}", "{ \"tables\" : \"t1\" }", "{\"taskId\":\"42\"}",
      "{\"error\":\"db down\"}", "null", "<html>Bad Gateway</html>", "" }

JsonParse(raw) ==
    CASE raw = "{\"tables\":\"t1\"}"     -> [ok |-> TRUE, val |-> [k |-> "tables", v |-> "t1"]]
      [] raw = "{ \"tables\" : \"t1\" }" -> [ok |-> TRUE, val |-> [k |-> "tables", v |-> "t1"]]
      [] raw = "{\"taskId\":\"42\"}"     -> [ok |-> TRUE, val |-> [k |-> "taskId", v |-> "42"]]
      [] raw = "{\"error\":\"db down\"}" -> [ok |-> TRUE, val |-> [k |-> "error", v |-> "db down"]]
      [] raw = "null"                    -> [ok |-> TRUE, val |-> JsonNull]
      [] OTHER                           -> [ok |-> FALSE, val |-> JsonNull]

(***************************************************************************)
(* API proxy layer                                                         *)
(***************************************************************************)
Routes == {"upload", "tables", "schema", "analysis", "activity", "reportGenerate", "reportStatus"}

\* The handlers that read a request body before forwarding (POST).
BodyRoutes == {"upload", "analysis", "reportGenerate"}

\* Request bodies a browser can send to a POST route: parseable or not.
ReqBodies == {"parseable", "malformed"}

\* HTTP status codes a backend can answer with.
BackendStatuses == {200, 201, 204, 301, 404, 500, 503}

\* What fetch() to the backend yields: a rejection (network fault) or a response.
NetworkFault == [net |-> TRUE, status |-> 0, raw |-> ""]
BackendOutcomes ==
    {NetworkFault} \cup [net : {FALSE}, status : BackendStatuses, raw : RawBodies]

NoOutcome == [net |-> FALSE, status |-> 0, raw |-> ""]
NoResponse == [status |-> 0, body |-> JsonNull]

\* Response.ok
ResponseOk(status) == status >= 200 /\ status <= 299

\* The fixed message of each handler's catch block.
ErrorMessage(route) ==
    CASE route = "upload"         -> "Failed to upload file"
      [] route = "tables"         -> "Failed to fetch table information"
      [] route = "schema"         -> "Failed to fetch database schema"
      [] route = "analysis"       -> "Failed to run analysis"
      [] route = "activity"       -> "Failed to fetch activity"
      [] route = "reportGenerate" -> "Failed to generate report"
      [] route = "reportStatus"   -> "Failed to check report status"

\* NextResponse.json(body, {status}); the status defaults to 200.
NextResponseJson(body, status) == [status |-> status, body |-> body]

\* catch (error) { return NextResponse.json({ error: <message> }, { status: 500 }) }
ErrorEnvelope(route) == NextResponseJson([k |-> "error", v |-> ErrorMessage(route)], 500)

\* Mutant: the catch block relays the backend's status code.
AfterFetchRelayStatus(route, outcome) ==
    IF outcome.net THEN ErrorEnvelope(route)
    ELSE IF ~ResponseOk(outcome.status)
         THEN NextResponseJson([k |-> "error", v |-> ErrorMessage(route)], outcome.status)
         ELSE IF ~JsonParse(outcome.raw).ok THEN ErrorEnvelope(route)
              ELSE NextResponseJson(JsonParse(outcome.raw).val, 200)

\* Mutant: the handler relays the backend body without checking response.ok.
AfterFetchNoOkCheck(route, outcome) ==
    IF outcome.net THEN ErrorEnvelope(route)
    ELSE IF ~JsonParse(outcome.raw).ok THEN ErrorEnvelope(route)
         ELSE NextResponseJson(JsonParse(outcome.raw).val, 200)

\* Mutant: the handler wraps the backend JSON as {data: ...} instead of relaying it.
AfterFetchWrapped(route, outcome) ==
    IF outcome.net \/ ~ResponseOk(outcome.status) \/ ~JsonParse(outcome.raw).ok
    THEN ErrorEnvelope(route)
    ELSE NextResponseJson([k |-> "data", v |-> JsonParse(outcome.raw).val.v], 200)

\* The handler from the point where await fetch(...) settles:
\*   rejection -> catch; !response.ok -> throw -> catch;
\*   response.json() throws on an unparseable body -> catch;
\*   otherwise NextResponse.json(data).
AfterFetch(route, outcome) ==
    IF outcome.net THEN ErrorEnvelope(route)
    ELSE IF ~ResponseOk(outcome.status) THEN ErrorEnvelope(route)
         ELSE IF ~JsonParse(outcome.raw).ok THEN ErrorEnvelope(route)
              ELSE NextResponseJson(JsonParse(outcome.raw).val, 200)

\* Mutant: the request body is read outside the try block's reach: a
\* malformed body is forwarded like any other.
PxRequestForwardsAnyBody(route, reqBody) ==
    /\ pxPc = "idle"
    /\ pxRoute' = route
    /\ pxReqBody' = reqBody
    /\ pxBackend' = NoOutcome
    /\ pxPc' = "fetching"
    /\ pxResp' = NoResponse
    /\ pxFetches' = 1
    /\ ProxyFrame

\* A browser request reaches a handler.  POST handlers first await
\* request.json() / request.formData(); a throw there goes to the catch block
\* before any fetch.  Otherwise the handler calls fetch once and suspends.
PxRequest(route, reqBody) ==
    /\ pxPc = "idle"
    /\ pxRoute' = route
    /\ pxReqBody' = reqBody
    /\ pxBackend' = NoOutcome
    /\ IF route \in BodyRoutes /\ reqBody = "malformed"
       THEN /\ pxPc' = "done"
            /\ pxResp' = ErrorEnvelope(route)
            /\ pxFetches' = 0
       ELSE /\ pxPc' = "fetching"
            /\ pxResp' = NoResponse
            /\ pxFetches' = 1
    /\ ProxyFrame

\* Mutant: a failed fetch is tried a second time.
PxSettleRetries(outcome) ==
    /\ pxPc = "fetching"
    /\ pxBackend' = outcome
    /\ IF (outcome.net \/ ~ResponseOk(outcome.status)) /\ pxFetches = 1
       THEN /\ pxFetches' = 2
            /\ UNCHANGED <<pxPc, pxResp>>
       ELSE /\ pxResp' = AfterFetch(pxRoute, outcome)
            /\ pxPc' = "done"
            /\ UNCHANGED pxFetches
    /\ UNCHANGED <<pxRoute, pxReqBody>>
    /\ ProxyFrame

\* The backend fetch settles and the handler runs to its return.
PxSettle(outcome) ==
    /\ pxPc = "fetching"
    /\ pxBackend' = outcome
    /\ pxResp' = AfterFetch(pxRoute, outcome)
    /\ pxPc' = "done"
    /\ UNCHANGED <<pxRoute, pxFetches, pxReqBody>>
    /\ ProxyFrame

\* The response has been sent; the next request gets a fresh invocation.
PxDone ==
    /\ pxPc = "done"
    /\ pxPc' = "idle"
    /\ pxRoute' = "schema"
    /\ pxBackend' = NoOutcome
    /\ pxResp' = NoResponse
    /\ pxFetches' = 0
    /\ pxReqBody' = "parseable"
    /\ ProxyFrame

InitProxy ==
    /\ pxPc = "idle"
    /\ pxRoute = "schema"
    /\ pxBackend = NoOutcome
    /\ pxResp = NoResponse
    /\ pxFetches = 0
    /\ pxReqBody = "parseable"

(***************************************************************************)
(* Chat session: ChatProvider (messages, conversationId and their          *)
(* operations) and ChatInterface.handleSendMessage.                        *)
(***************************************************************************)
MaxSends == 2      \* sends issued in one behaviour
MaxClock == 3      \* largest value Date.now() returns in one behaviour

NoViz == "undefined"
Undefined == "undefined"

\* Two of the four SUGGESTED_QUERIES (the buttons differ only in their text).
SuggestedQueries == {"Show sales by country", "Top 5 cities"}

\* Texts the user can have in the input field, and String.prototype.trim on them.
InputTexts == {"", "  ", " hi "}
Trim(s) ==
    CASE s = ""     -> ""
      [] s = "  "   -> ""
      [] s = " hi " -> "hi"
      [] OTHER      -> s

ApologyText ==
    "Sorry, I'm having trouble connecting to the backend. Please check if the API server is running."
NoResponseText == "No response from AI"

\* The initial state of useState<ChatMessage[]> in ChatProvider.  seq and send
\* are history fields (the addMessage call and the send a message came from).
WelcomeMessage ==
    [id |-> "1", role |-> "ai",
     content |-> "Hello! I'm your AI data analyst. How can I help you today? Try asking \"Show me sales by country\" or \"Generate a report\".",
     visualization |-> NoViz, seq |-> 0, send |-> 0]

\* Bodies the /api/chat endpoint can answer with: text that is no JSON, the
\* JSON value null, or a JSON object; an absent member is "" / NoViz (absent
\* and empty are both falsy in the handler's tests).
ChatBody(kind, response, cid, viz) ==
    [kind |-> kind, response |-> response, conversationId |-> cid, visualization |-> viz]

ChatBodies ==
    { ChatBody("garbage", "", "", NoViz),
      ChatBody("null", "", "", NoViz),
      ChatBody("object", "", "", NoViz),
      ChatBody("object", "", "c1", NoViz),
      ChatBody("object", "42 rows", "", NoViz),
      ChatBody("object", "42 rows", "c1", "bar"),
      ChatBody("object", "42 rows", "c2", NoViz) }

ChatFault == [net |-> TRUE, status |-> 0, body |-> ChatBody("garbage", "", "", NoViz)]
ChatOutcomes ==
    {ChatFault, [ChatFault EXCEPT !.net = FALSE, !.status = 500],
     [net |-> FALSE, status |-> 500, body |-> ChatBody("object", "42 rows", "c2", NoViz)]}
    \cup [net : {FALSE}, status : {200}, body : ChatBodies]

\* Mutant: addMessage puts the new message first.
AddMessagePrepend(prev, message) == <<message>> \o prev

\* addMessage: setMessages((prev) => [...prev, message])
AddMessage(prev, message) == Append(prev, message)

\* const messageText = text || input.trim()
\* Mutant: the input is used without trim().
MessageTextNoTrim(text, inp) == IF text # Undefined /\ text # "" THEN text ELSE inp

MessageText(text, inp) == IF text # Undefined /\ text # "" THEN text ELSE Trim(inp)

\* Mutant: the try block does not test response.ok.
ReplyThrowsNoOkTest(outcome) ==
    \/ outcome.net
    \/ outcome.body.kind = "garbage"
    \/ outcome.body.kind = "null"

\* The try block of handleSendMessage throws: fetch rejected, !response.ok,
\* response.json() failed, or data is null (data.conversationId is a TypeError).
ReplyThrows(outcome) ==
    \/ outcome.net
    \/ ~ResponseOk(outcome.status)
    \/ outcome.body.kind = "garbage"
    \/ outcome.body.kind = "null"

\* The catch clause has no filter and its body cannot throw.
Uncaught(outcome) == FALSE

\* if (data.conversationId) setConversationId(data.conversationId)
ReplyConversationId(cur, outcome) ==
    IF ~ReplyThrows(outcome) /\ outcome.body.conversationId # ""
    THEN outcome.body.conversationId
    ELSE cur

\* Mutant: the success path uses the response text without the || fallback.
ReplyMessageNoFallback(outcome, now, seq, send) ==
    IF ReplyThrows(outcome)
    THEN [id |-> ToString(now + 1), role |-> "ai", content |-> ApologyText,
          visualization |-> NoViz, seq |-> seq, send |-> send]
    ELSE [id |-> ToString(now + 1), role |-> "ai", content |-> outcome.body.response,
          visualization |-> outcome.body.visualization, seq |-> seq, send |-> send]

\* The assistant message handleSendMessage builds: aiMessage on the success
\* path, errorMessage in the catch block; both ids are (Date.now() + 1).toString().
ReplyMessage(outcome, now, seq, send) ==
    IF ReplyThrows(outcome)
    THEN [id |-> ToString(now + 1), role |-> "ai", content |-> ApologyText,
          visualization |-> NoViz, seq |-> seq, send |-> send]
    ELSE [id |-> ToString(now + 1), role |-> "ai",
          content |-> IF outcome.body.response # "" THEN outcome.body.response
                      ELSE NoResponseText,
          visualization |-> outcome.body.visualization, seq |-> seq, send |-> send]

\* handleSendMessage(text) up to its await: the early return on an empty
\* text, or setInput(""), setIsLoading(true), addMessage(userMessage) and the
\* fetch of /api/chat carrying the conversationId the session holds.
HandleSendMessage(text, now) ==
    LET messageText == MessageText(text, input) IN
    IF messageText = ""
    THEN /\ lastOp' = [op |-> "send", sent |-> FALSE]
         /\ UNCHANGED <<messages, conversationId, input, isLoading, inflight, clock,
                        nextSend, nextSeq, escaped>>
    ELSE /\ nextSend < MaxSends
         /\ input' = ""
         /\ isLoading' = TRUE
         /\ messages' = AddMessage(messages,
                [id |-> ToString(now), role |-> "user", content |-> messageText,
                 visualization |-> NoViz, seq |-> nextSeq + 1, send |-> nextSend + 1])
         /\ inflight' = inflight \cup
                {[send |-> nextSend + 1, message |-> messageText, conversationId |-> conversationId]}
         /\ clock' = now
         /\ nextSend' = nextSend + 1
         /\ nextSeq' = nextSeq + 1
         /\ lastOp' = [op |-> "send", sent |-> TRUE]
         /\ UNCHANGED <<conversationId, escaped>>

\* Mutant: the input field stays enabled while a response is pending.
InputAlwaysEnabled == TRUE

\* The input field is disabled={isLoading}: it takes no text and no keys then.
InputEnabled == ~isLoading

\* The user edits the input field (disabled while isLoading).
TypeInput(s) ==
    /\ InputEnabled
    /\ input' = s
    /\ lastOp' = [op |-> "type"]
    /\ UNCHANGED <<messages, conversationId, isLoading, inflight, clock, nextSend, nextSeq,
                   escaped>>
    /\ ChatFrame

\* Enter in the input field (the field takes no keys while disabled).
PressEnter ==
    /\ InputEnabled
    /\ \E now \in clock..MaxClock : HandleSendMessage(Undefined, now)
    /\ ChatFrame

\* The send button: disabled={isLoading || !input.trim()}.
ClickSend ==
    /\ ~isLoading
    /\ Trim(input) # ""
    /\ \E now \in clock..MaxClock : HandleSendMessage(Undefined, now)
    /\ ChatFrame

\* A suggested-query button: rendered only while messages.length === 0.
ClickSuggested(query) ==
    /\ Len(messages) = 0
    /\ \E now \in clock..MaxClock : HandleSendMessage(query, now)
    /\ ChatFrame

\* Mutant: setIsLoading(false) is at the end of the try block, not in finally.
ReplyClearsLoadingOnSuccessOnly(req, outcome, now) ==
    /\ req \in inflight
    /\ inflight' = inflight \ {req}
    /\ conversationId' = ReplyConversationId(conversationId, outcome)
    /\ messages' = AddMessage(messages, ReplyMessage(outcome, now, nextSeq + 1, req.send))
    /\ isLoading' = IF ReplyThrows(outcome) THEN isLoading ELSE FALSE
    /\ clock' = now
    /\ nextSeq' = nextSeq + 1
    /\ escaped' = (escaped \/ Uncaught(outcome))
    /\ lastOp' = [op |-> "reply", send |-> req.send, outcome |-> outcome]
    /\ UNCHANGED <<input, nextSend>>
    /\ ChatFrame

\* handleSendMessage from the point where await fetch settles, to its end:
\* success path or catch block, then finally { setIsLoading(false) }.
Reply(req, outcome, now) ==
    /\ req \in inflight
    /\ inflight' = inflight \ {req}
    /\ conversationId' = ReplyConversationId(conversationId, outcome)
    /\ messages' = AddMessage(messages, ReplyMessage(outcome, now, nextSeq + 1, req.send))
    /\ isLoading' = FALSE
    /\ clock' = now
    /\ nextSeq' = nextSeq + 1
    /\ escaped' = (escaped \/ Uncaught(outcome))
    /\ lastOp' = [op |-> "reply", send |-> req.send, outcome |-> outcome]
    /\ UNCHANGED <<input, nextSend>>
    /\ ChatFrame

\* Mutant: clearMessages empties the log only.
ClearMessagesKeepId ==
    /\ messages' = <<>>
    /\ lastOp' = [op |-> "clear", hadMessages |-> Len(messages), hadId |-> conversationId # Null]
    /\ UNCHANGED <<conversationId, input, isLoading, inflight, clock, nextSend, nextSeq, escaped>>
    /\ ChatFrame

\* clearMessages: setMessages([]); setConversationId(null)
ClearMessages ==
    /\ messages' = <<>>
    /\ conversationId' = Null
    /\ lastOp' = [op |-> "clear", hadMessages |-> Len(messages), hadId |-> conversationId # Null]
    /\ UNCHANGED <<input, isLoading, inflight, clock, nextSend, nextSeq, escaped>>
    /\ ChatFrame

InitChat ==
    /\ messages = <<WelcomeMessage>>
    /\ conversationId = Null
    /\ input = ""
    /\ isLoading = FALSE
    /\ inflight = {}
    /\ clock = 2
    /\ nextSend = 0
    /\ nextSeq = 0
    /\ lastOp = [op |-> "init"]
    /\ escaped = FALSE

(***************************************************************************)
(* Reports page: the generate action.                                      *)
(***************************************************************************)
MaxReports == 2    \* generateReport calls in one behaviour

\* REPORT_TYPES: value -> template
ReportTypes == {"executive-summary", "detailed-analysis", "custom"}
TypeTemplate(value) ==
    CASE value = "executive-summary" -> "Executive summary of key performance metrics"
      [] value = "detailed-analysis" -> "Detailed breakdown of sales, customers, and products"
      [] value = "custom"            -> "Custom analysis"
      [] OTHER                       -> ""

\* TIME_PERIODS: value -> `Time period: ${label}` (the label is "" when not found)
TimePeriods == {"30d", "quarter", "year", "custom"}
PeriodPart(value) ==
    CASE value = "30d"     -> "Time period: Last 30 days"
      [] value = "quarter" -> "Time period: Last Quarter"
      [] value = "year"    -> "Time period: Last Year"
      [] value = "custom"  -> "Time period: Custom Range"
      [] OTHER             -> "Time period: "

\* buildQuery: [typeTemplate, `Time period: ...`, notes.trim()].filter(Boolean).join(" | ").
\* The query is kept as the sequence of the parts joined.
BuildQuery(type, period, text) ==
    SelectSeq(<<TypeTemplate(type), PeriodPart(period), Trim(text)>>, LAMBDA part : part # "")

\* !query.trim(): a join of non-empty parts, none of them blank, trims to ""
\* only when there is no part.
QueryBlank(query) == Len(query) = 0

rpHook == <<rpPc, rpStatus, rpError, rpTask, rpScript, rpPolls, rpTerminals>>

\* The selects and the notes field.
SetReportType(value) ==
    /\ reportType' = value
    /\ rpLast' = "edit"
    /\ UNCHANGED <<timePeriod, notes, generating, rpCalls>>
    /\ UNCHANGED rpHook
    /\ ReportFrame

SetTimePeriod(value) ==
    /\ timePeriod' = value
    /\ rpLast' = "edit"
    /\ UNCHANGED <<reportType, notes, generating, rpCalls>>
    /\ UNCHANGED rpHook
    /\ ReportFrame

SetNotes(text) ==
    /\ notes' = text
    /\ rpLast' = "edit"
    /\ UNCHANGED <<reportType, timePeriod, generating, rpCalls>>
    /\ UNCHANGED rpHook
    /\ ReportFrame

\* A status of a report task, as the status endpoint reports it.
StatusGenerating(progress) == [status |-> "generating", progress |-> progress, fileUrl |-> ""]
StatusSucceeded(url) == [status |-> "succeeded", progress |-> 100, fileUrl |-> url]
StatusFailed == [status |-> "failed", progress |-> 0, fileUrl |-> ""]
\* The status request itself fails.
StatusError == [status |-> "error", progress |-> 0, fileUrl |-> ""]
NoStatus == [status |-> "none", progress |-> 0, fileUrl |-> ""]

\* The task that reports generating(40), generating(90), succeeded(X).
Script4090 == <<StatusGenerating(40), StatusGenerating(90), StatusSucceeded("X")>>

\* What the status endpoint answers to the successive status requests of one task.
TaskScripts ==
    { Script4090,
      <<StatusSucceeded("Y")>>,
      <<StatusGenerating(40), StatusFailed>>,
      <<StatusGenerating(40), StatusError>>,
      <<StatusFailed>> }

CreateFailed == <<>>

\* The status panel shows the Download button, and handleDownload opens the
\* file, only when status?.fileUrl is truthy.
DownloadEnabled == rpStatus # NoStatus /\ rpStatus.fileUrl # ""

\* generateReport starts: the hook sets generating and sends the creation request.
GenerateReport ==
    /\ generating' = TRUE
    /\ rpPc' = "creating"
    /\ rpStatus' = NoStatus
    /\ rpError' = ""
    /\ rpTask' = <<>>
    /\ rpScript' = <<>>
    /\ rpPolls' = 0
    /\ rpTerminals' = 0

\* Mutant: handleGenerate without `if (generating) return`.
HandleGenerateNoGuard ==
    /\ ReportFrame
    /\ rpCalls < MaxReports
    /\ rpCalls' = rpCalls + 1
    /\ GenerateReport
    /\ rpLast' = IF generating THEN "busy" ELSE "called"
    /\ UNCHANGED <<reportType, timePeriod, notes>>

\* handleGenerate: if (generating) return; if (!query.trim()) return;
\* await generateReport({ query, format: "pdf" }).
HandleGenerate ==
    /\ ReportFrame
    /\ IF generating
       THEN /\ rpLast' = "busy"
            /\ UNCHANGED <<reportType, timePeriod, notes, generating, rpCalls>>
            /\ UNCHANGED rpHook
       ELSE IF QueryBlank(BuildQuery(reportType, timePeriod, notes))
            THEN /\ rpLast' = "blank"
                 /\ UNCHANGED <<reportType, timePeriod, notes, generating, rpCalls>>
                 /\ UNCHANGED rpHook
            ELSE /\ rpCalls < MaxReports
                 /\ rpCalls' = rpCalls + 1
                 /\ GenerateReport
                 /\ rpLast' = "called"
                 /\ UNCHANGED <<reportType, timePeriod, notes>>

\* The generation reaches a terminal state: the hook clears generating and
\* keeps the last status and the error.
GenerateSettles(status, error) ==
    /\ generating' = FALSE
    /\ rpPc' = "done"
    /\ rpStatus' = status
    /\ rpError' = error
    /\ rpTerminals' = rpTerminals + 1
    /\ rpLast' = "settled"

\* The creation request settles: with a task identifier the hook sends the
\* first status request; a failed creation ends the generation.
CreateSettles(outcome) ==
    /\ rpPc = "creating"
    /\ IF outcome = CreateFailed
       THEN /\ GenerateSettles(rpStatus, "create failed")
            /\ UNCHANGED <<rpTask, rpScript, rpPolls>>
       ELSE /\ rpPc' = "polling"
            /\ rpTask' = outcome
            /\ rpScript' = outcome
            /\ rpPolls' = 1
            /\ rpLast' = "created"
            /\ UNCHANGED <<generating, rpStatus, rpError, rpTerminals>>
    /\ UNCHANGED <<reportType, timePeriod, notes, rpCalls>>
    /\ ReportFrame

\* Mutant: the hook keeps polling after the task succeeded.
PollSettlesKeepsPolling ==
    /\ rpPc = "polling"
    /\ rpPolls <= Len(rpTask)
    /\ LET answer == IF rpScript = <<>> THEN rpTask[Len(rpTask)] ELSE Head(rpScript) IN
       /\ rpStatus' = answer
       /\ rpScript' = IF rpScript = <<>> THEN rpScript ELSE Tail(rpScript)
       /\ rpPolls' = rpPolls + 1
       /\ rpLast' = "polled"
       /\ UNCHANGED <<generating, rpPc, rpError, rpTerminals, rpTask>>
    /\ UNCHANGED <<reportType, timePeriod, notes, rpCalls>>
    /\ ReportFrame

\* A status request settles: while the task is generating the hook keeps the
\* status and sends the next status request; a succeeded or failed status, or
\* a failed status request, ends the generation and no request follows.
PollSettles ==
    /\ rpPc = "polling"
    /\ rpScript # <<>>
    /\ LET answer == Head(rpScript) IN
       /\ rpScript' = Tail(rpScript)
       /\ CASE answer.status = "generating" ->
                 /\ rpStatus' = answer
                 /\ rpPolls' = rpPolls + 1
                 /\ rpLast' = "polled"
                 /\ UNCHANGED <<generating, rpPc, rpError, rpTerminals>>
            [] answer.status = "succeeded" ->
                 /\ GenerateSettles(answer, "")
                 /\ UNCHANGED rpPolls
            [] answer.status = "failed" ->
                 /\ GenerateSettles(answer, "report failed")
                 /\ UNCHANGED rpPolls
            [] OTHER ->
                 /\ GenerateSettles(rpStatus, "status failed")
                 /\ UNCHANGED rpPolls
    /\ UNCHANGED <<reportType, timePeriod, notes, rpCalls, rpTask>>
    /\ ReportFrame

InitReport ==
    /\ reportType = "executive-summary"
    /\ timePeriod = "30d"
    /\ notes = ""
    /\ generating = FALSE
    /\ rpCalls = 0
    /\ rpLast = "init"
    /\ rpPc = "idle"
    /\ rpStatus = NoStatus
    /\ rpError = ""
    /\ rpTask = <<>>
    /\ rpScript = <<>>
    /\ rpPolls = 0
    /\ rpTerminals = 0

(***************************************************************************)
(* Visualization preview of the chat panel: VisualizationPreview resolves   *)
(* the category (label) field and the value field of a chart.  A row is     *)
(* kept as the sequence Object.keys returns for it; an absent (undefined)   *)
(* or empty key is "", which is what `||` and `!` take for absent.          *)
(***************************************************************************)
MaxRows == 2       \* rows in visualization.data

NoKey == ""
NullRow == [null |-> TRUE, keys |-> <<>>]
EmptyObject == [null |-> FALSE, keys |-> <<>>]

\* First rows and other rows of a result set.
VizRows ==
    { NullRow, EmptyObject,
      [null |-> FALSE, keys |-> <<"country">>],
      [null |-> FALSE, keys |-> <<"country", "sales">>],
      [null |-> FALSE, keys |-> <<"sales", "country", "year">>] }

RowLists == UNION { [1..n -> VizRows] : n \in 0..MaxRows }

\* visualization.data: an array of rows, or something that is not an array
\* (undefined, an object).
VizDatas == [array : {TRUE}, rows : RowLists] \cup {[array |-> FALSE, rows |-> <<>>]}

\* visualization.config: absent, or an object whose four keys are optional.
NoConfig == [present |-> FALSE, labelKey |-> NoKey, xKey |-> NoKey, valueKey |-> NoKey, yKey |-> NoKey]
VizConfigs ==
    {NoConfig} \cup
    [present : {TRUE}, labelKey : {NoKey, "sales", "region"}, xKey : {NoKey, "country"},
     valueKey : {NoKey, "sales"}, yKey : {NoKey, "year", "country"}]

\* a || b on keys
OrKey(a, b) == IF a # NoKey THEN a ELSE b

\* keys[0]
FirstKey(keys) == IF Len(keys) > 0 THEN keys[1] ELSE NoKey

\* keys.find((key) => key !== labelKey)
FindOther(keys, labelKey) ==
    LET others == SelectSeq(keys, LAMBDA key : key # labelKey) IN FirstKey(others)

\* data[0] ?? {}
Sample(data) == IF data[1].null THEN EmptyObject ELSE data[1]

\* Object.keys(sample)
ObjectKeys(sample) == sample.keys

\* Mutant: xKey is preferred to labelKey.
LabelKeyXFirst(config, keys) == OrKey(config.xKey, OrKey(config.labelKey, FirstKey(keys)))

\* config?.labelKey || config?.xKey || keys[0]
LabelKey(config, keys) == OrKey(config.labelKey, OrKey(config.xKey, FirstKey(keys)))

\* Mutant: no keys[0] fallback for the value field.
ValueKeyNoFallback(config, keys, labelKey) ==
    OrKey(config.valueKey, OrKey(config.yKey, FindOther(keys, labelKey)))

\* config?.valueKey || config?.yKey || keys.find(...) || keys[0]
ValueKey(config, keys, labelKey) ==
    OrKey(config.valueKey, OrKey(config.yKey, OrKey(FindOther(keys, labelKey), FirstKey(keys))))

Unavailable == [view |-> "unavailable", labelKey |-> NoKey, valueKey |-> NoKey, keysRead |-> FALSE]
NoView == [view |-> "none", labelKey |-> NoKey, valueKey |-> NoKey, keysRead |-> FALSE]

\* The render once `data` is an array: the empty-array return, then the
\* resolution of the two fields.
PreviewRows(rows, config) ==
    IF Len(rows) = 0
    THEN Unavailable
    ELSE LET keys == ObjectKeys(Sample(rows))
             labelKey == LabelKey(config, keys)
             valueKey == ValueKey(config, keys, labelKey)
         IN IF labelKey = NoKey \/ valueKey = NoKey
            THEN [view |-> "cannot", labelKey |-> labelKey, valueKey |-> valueKey, keysRead |-> TRUE]
            ELSE [view |-> "chart", labelKey |-> labelKey, valueKey |-> valueKey, keysRead |-> TRUE]

\* Mutant: the rows are used without the Array.isArray test (data.length of
\* undefined throws).
VisualizationPreviewNoArrayTest(data, config) ==
    IF ~data.array
    THEN [view |-> "exception", labelKey |-> NoKey, valueKey |-> NoKey, keysRead |-> FALSE]
    ELSE PreviewRows(data.rows, config)

\* VisualizationPreview: what one render returns.
VisualizationPreview(data, config) ==
    PreviewRows(IF data.array THEN data.rows ELSE <<>>, config)

\* An assistant message arrives whose visualization has these rows.
VizSetData(data) ==
    /\ vzData' = data
    /\ vzView' = NoView
    /\ UNCHANGED vzConfig
    /\ VizFrame

\* ... and this configuration.
VizSetConfig(config) ==
    /\ vzConfig' = config
    /\ vzView' = NoView
    /\ UNCHANGED vzData
    /\ VizFrame

\* The message is rendered.
VizRender ==
    /\ vzView = NoView
    /\ vzView' = VisualizationPreview(vzData, vzConfig)
    /\ UNCHANGED <<vzData, vzConfig>>
    /\ VizFrame

InitViz ==
    /\ vzData = [array |-> FALSE, rows |-> <<>>]
    /\ vzConfig = NoConfig
    /\ vzView = NoView

NextViz ==
    \/ \E data \in VizDatas : VizSetData(data)
    \/ \E config \in VizConfigs : VizSetConfig(config)
    \/ VizRender

(***************************************************************************)
(* Settings page: the settings object, its load from local storage at       *)
(* mount, and save / reset.  The stored item is text; it is kept as the     *)
(* kind of text and, for the text of a JSON object, the object it denotes.  *)
(***************************************************************************)
DEFAULT_SETTINGS ==
    [theme |-> "system", language |-> "en", chatSuggestions |-> TRUE, autoReports |-> FALSE,
     apiKey |-> "", baseUrl |-> "http://localhost:8000"]

\* Values the controls of the page give to handleChange.
SettingValues(key) ==
    CASE key = "theme"           -> {"system", "dark"}
      [] key = "language"        -> {"en", "es"}
      [] key = "chatSuggestions" -> BOOLEAN
      [] key = "autoReports"     -> BOOLEAN
      [] key = "apiKey"          -> {"", "k1"}
      [] key = "baseUrl"         -> {"http://localhost:8000", "http://api"}

\* {}
NoFields == [f \in {} |-> ""]

\* localStorage.getItem returns null (no item), "" or other text.
NoItem == [kind |-> "none", obj |-> NoFields]
EmptyItem == [kind |-> "empty", obj |-> NoFields]
BadItem == [kind |-> "unparseable", obj |-> NoFields]
NullItem == [kind |-> "jsonNull", obj |-> NoFields]

\* JSON.stringify(settings): the text of a JSON object.
JsonStringify(settings) == [kind |-> "object", obj |-> settings]

\* Items an earlier session, an earlier version of the page or the user left
\* under "dashboard-settings".
StoredItems ==
    { NoItem, EmptyItem, BadItem, NullItem,
      JsonStringify([theme |-> "dark"]),
      JsonStringify([language |-> "es", apiKey |-> "k1"]),
      JsonStringify([theme |-> "dark", fontSize |-> "12"]),
      JsonStringify([theme |-> "dark", language |-> "es", chatSuggestions |-> FALSE,
                     autoReports |-> TRUE, apiKey |-> "k1", baseUrl |-> "http://api"]) }

\* JSON.parse(stored): throws on text that is not JSON; null spreads to nothing.
ParseStored(stored) ==
    CASE stored.kind = "object"   -> [ok |-> TRUE, val |-> stored.obj]
      [] stored.kind = "jsonNull" -> [ok |-> TRUE, val |-> NoFields]
      [] OTHER                    -> [ok |-> FALSE, val |-> NoFields]

\* { ...a, ...b }
Spread(a, b) == [f \in DOMAIN a \cup DOMAIN b |-> IF f \in DOMAIN b THEN b[f] ELSE a[f]]

\* Mutant: the spread has the defaults last.
LoadSettingsDefaultsLast(current, stored) ==
    IF stored.kind \in {"none", "empty"}
    THEN current
    ELSE IF ParseStored(stored).ok
         THEN Spread(ParseStored(stored).val, DEFAULT_SETTINGS)
         ELSE DEFAULT_SETTINGS

\* The load effect: if (stored) { try { setSettings({ ...DEFAULT_SETTINGS,
\* ...JSON.parse(stored) }) } catch { setSettings(DEFAULT_SETTINGS) } }
LoadSettings(current, stored) ==
    IF stored.kind \in {"none", "empty"}
    THEN current
    ELSE IF ParseStored(stored).ok
         THEN Spread(DEFAULT_SETTINGS, ParseStored(stored).val)
         ELSE DEFAULT_SETTINGS

\* Something other than this page instance leaves an item before the page mounts.
StorageHolds(stored) ==
    /\ ~stMounted
    /\ stStorage' = stored
    /\ stLast' = "stored"
    /\ stOrigin' = "other"
    /\ UNCHANGED <<stSettings, stMounted>>
    /\ SettingsFrame

\* The page mounts: useState(DEFAULT_SETTINGS), then the load effect.
SettingsMount ==
    /\ ~stMounted
    /\ stSettings' = LoadSettings(DEFAULT_SETTINGS, stStorage)
    /\ stMounted' = TRUE
    /\ stLast' = "mount"
    /\ UNCHANGED <<stStorage, stOrigin>>
    /\ SettingsFrame

\* handleChange(key, value): setSettings((prev) => ({ ...prev, [key]: value }))
HandleChange(key, value) ==
    /\ stMounted
    /\ stSettings' = Spread(stSettings, [f \in {key} |-> value])
    /\ stLast' = "change"
    /\ UNCHANGED <<stStorage, stMounted, stOrigin>>
    /\ SettingsFrame

\* handleSave: localStorage.setItem("dashboard-settings", JSON.stringify(settings))
HandleSave ==
    /\ stMounted
    /\ stStorage' = JsonStringify(stSettings)
    /\ stLast' = "save"
    /\ stOrigin' = "save"
    /\ UNCHANGED <<stSettings, stMounted>>
    /\ SettingsFrame

\* handleSave when localStorage.setItem throws: the catch block only sets
\* the "Failed to save settings." message.
HandleSaveFails ==
    /\ stMounted
    /\ stLast' = "save failed"
    /\ UNCHANGED <<stStorage, stSettings, stMounted, stOrigin>>
    /\ SettingsFrame

\* Mutant: handleReset without localStorage.removeItem.
HandleResetKeepsItem ==
    /\ stMounted
    /\ stSettings' = DEFAULT_SETTINGS
    /\ stLast' = "reset"
    /\ stOrigin' = "reset"
    /\ UNCHANGED <<stStorage, stMounted>>
    /\ SettingsFrame

\* handleReset: setSettings(DEFAULT_SETTINGS); localStorage.removeItem(...)
HandleReset ==
    /\ stMounted
    /\ stSettings' = DEFAULT_SETTINGS
    /\ stStorage' = NoItem
    /\ stLast' = "reset"
    /\ stOrigin' = "reset"
    /\ UNCHANGED stMounted
    /\ SettingsFrame

\* The page is left; its state is gone, the stored item stays.
SettingsUnmount ==
    /\ stMounted
    /\ stMounted' = FALSE
    /\ stSettings' = DEFAULT_SETTINGS
    /\ stLast' = "unmount"
    /\ UNCHANGED <<stStorage, stOrigin>>
    /\ SettingsFrame

InitSettings ==
    /\ stStorage = NoItem
    /\ stSettings = DEFAULT_SETTINGS
    /\ stMounted = FALSE
    /\ stLast = "init"
    /\ stOrigin = "none"

NextSettings ==
    \/ \E stored \in StoredItems : StorageHolds(stored)
    \/ SettingsMount
    \/ \E key \in DOMAIN DEFAULT_SETTINGS : \E value \in SettingValues(key) : HandleChange(key, value)
    \/ HandleSave
    \/ HandleSaveFails
    \/ HandleReset
    \/ SettingsUnmount

(***************************************************************************)
(* Data explorer page: the table-list request of the mount effect, the      *)
(* table-detail request of the selection effect, and the table selector.    *)
(***************************************************************************)
MaxRequests == 4   \* requests the page issues in one behaviour

TableNames == {"t1", "t2", "t3"}

\* Bodies the proxy answers with, as res.json() reads them.
TablesBody(names) == [kind |-> "tables", tables |-> names, table |-> ""]
DetailBody(name) == [kind |-> "detail", tables |-> <<>>, table |-> name]
EnvelopeBody == [kind |-> "error", tables |-> <<>>, table |-> ""]
NullBody == [kind |-> "null", tables |-> <<>>, table |-> ""]
GarbageBody == [kind |-> "garbage", tables |-> <<>>, table |-> ""]
NoData == [kind |-> "none", tables |-> <<>>, table |-> ""]

\* What fetch() to the proxy yields: a rejection, or a response of any status.
ExFault == [net |-> TRUE, status |-> 0, body |-> GarbageBody]
ExEnvelope == [net |-> FALSE, status |-> 500, body |-> EnvelopeBody]
ExCommon ==
    { ExFault, ExEnvelope,
      [net |-> FALSE, status |-> 502, body |-> GarbageBody],
      [net |-> FALSE, status |-> 200, body |-> NullBody] }
ListOutcomes ==
    ExCommon \cup
    { [net |-> FALSE, status |-> 200, body |-> TablesBody(names)] :
        names \in {<<>>, <<"t1">>, <<"t1", "t2">>, <<"t2", "t1", "t3">>} }
DetailOutcomes(name) ==
    ExCommon \cup {[net |-> FALSE, status |-> 200, body |-> DetailBody(name)]}

\* The request failed: a network fault, or the proxy's {error} + 500 envelope.
ExRequestFailed(outcome) == outcome.net \/ (outcome.status = 500 /\ outcome.body.kind = "error")

\* fetch rejects, or res.json() rejects.
ExRejects(outcome) == outcome.net \/ outcome.body.kind = "garbage"

\* err.message
ExMessage(outcome) ==
    CASE outcome.net                    -> "Failed to fetch"
      [] outcome.body.kind = "garbage" -> "Unexpected token"
      [] OTHER                         -> "Cannot read properties of null"

\* data.tables || []
DataTables(body) == IF body.kind = "tables" THEN body.tables ELSE <<>>

\* The selection effect: if (!selectedTable) return; setLoading(true); fetch(...)
\* It runs after the render in which selectedTable changed.
SelectionEffect(old, new, loadingNow, pendingNow) ==
    IF new = "" \/ new = old
    THEN /\ exLoading' = loadingNow
         /\ exPending' = pendingNow
         /\ UNCHANGED exIssued
    ELSE /\ exIssued < MaxRequests
         /\ exLoading' = TRUE
         /\ exPending' = pendingNow \cup {[kind |-> "detail", table |-> new, n |-> exIssued + 1]}
         /\ exIssued' = exIssued + 1

\* The .catch of either fetch chain: setError(err.message); setLoading(false)
ExCatch(req, outcome, message) ==
    /\ exError' = message
    /\ exLoading' = FALSE
    /\ exPending' = exPending \ {req}
    /\ UNCHANGED <<exTables, exSelected, exTableData, exIssued>>

\* The table-list chain settles.
ListSettles(req, outcome) ==
    /\ req \in exPending
    /\ req.kind = "list"
    /\ exFailed' = (exFailed \/ ExRequestFailed(outcome))
    /\ IF ExRejects(outcome) \/ outcome.body.kind = "null"
       THEN ExCatch(req, outcome, ExMessage(outcome))
       ELSE LET names == DataTables(outcome.body)
                selected == IF Len(names) > 0 THEN names[1] ELSE exSelected
            IN /\ exTables' = names
               /\ exSelected' = selected
               /\ SelectionEffect(exSelected, selected, FALSE, exPending \ {req})
               /\ UNCHANGED <<exTableData, exError>>
    /\ ExplorerFrame

\* A table-detail chain settles.
DetailSettles(req, outcome) ==
    /\ req \in exPending
    /\ req.kind = "detail"
    /\ exFailed' = (exFailed \/ ExRequestFailed(outcome))
    /\ IF ExRejects(outcome)
       THEN ExCatch(req, outcome, ExMessage(outcome))
       ELSE /\ exTableData' = outcome.body
            /\ exLoading' = FALSE
            /\ exPending' = exPending \ {req}
            /\ UNCHANGED <<exTables, exSelected, exError, exIssued>>
    /\ ExplorerFrame

\* The user picks a table in the selector, which is rendered when there is
\* no error and not (loading && !tableData).
SelectTable(name) ==
    /\ exError = Null
    /\ ~(exLoading /\ exTableData.kind \in {"none", "null"})
    /\ \E i \in 1..Len(exTables) : exTables[i] = name
    /\ name # exSelected
    /\ exSelected' = name
    /\ SelectionEffect(exSelected, name, exLoading, exPending)
    /\ UNCHANGED <<exTables, exTableData, exError, exFailed>>
    /\ ExplorerFrame

\* The state after the first render and its effects: the table-list request
\* is out, the selection effect returned at once.
InitExplorer ==
    /\ exTables = <<>>
    /\ exSelected = ""
    /\ exTableData = NoData
    /\ exLoading = TRUE
    /\ exError = Null
    /\ exPending = {[kind |-> "list", table |-> "", n |-> 1]}
    /\ exIssued = 1
    /\ exFailed = FALSE

NextExplorer ==
    \/ \E req \in exPending, outcome \in ListOutcomes : ListSettles(req, outcome)
    \/ \E req \in exPending : \E outcome \in DetailOutcomes(req.table) : DetailSettles(req, outcome)
    \/ \E name \in TableNames : SelectTable(name)

(***************************************************************************)
(* Upload page: handleFiles and the recent-uploads list.                    *)
(***************************************************************************)
MaxUploads == 2    \* upload() calls in one behaviour
MaxUpClock == 2    \* largest value Date.now() returns to the upload page

\* FileList | null, as the drop zone and the file input hand it to handleFiles.
NullFileList == [null |-> TRUE, files |-> <<>>]
FileLists ==
    {NullFileList} \cup
    [null : {FALSE}, files : {<<>>, <<"a.csv">>, <<"b.csv">>, <<"a.csv", "b.csv">>}]

\* What upload(file) resolves to: the backend's response, or null.
NoUploadResponse == [any |-> FALSE, tableName |-> "", rowsUploaded |-> 0]
UploadResponses ==
    {NoUploadResponse, [any |-> TRUE, tableName |-> "sales", rowsUploaded |-> 10]}

\* `${Date.now()}-${file.name}`
UploadId(now, name) == [t |-> now, name |-> name]

\* Mutant: the last file of the list is taken.
LastFile(fileList) == fileList.files[Len(fileList.files)]

\* fileList[0]
FirstFile(fileList) == fileList.files[1]

\* tempUpload
TempUpload(id, name, n) ==
    [id |-> id, name |-> name, rows |-> 0, tableName |-> "Pending", status |-> "processing",
     n |-> n]

\* The entry after its upload returned: the map callback of lines 53-66.
Completed(entry, uploadId, response) ==
    IF entry.id = uploadId
    THEN IF response.any
         THEN [entry EXCEPT !.tableName = response.tableName, !.rows = response.rowsUploaded,
                            !.status = "success"]
         ELSE [entry EXCEPT !.status = "error"]
    ELSE entry

\* handleFiles(fileList) up to its await.
HandleFiles(fileList, now) ==
    /\ upLast' = [op |-> "files", list |-> fileList]
    /\ IF fileList.null \/ Len(fileList.files) = 0
       THEN UNCHANGED <<uploads, upPending, upClock, upStarted>>
       ELSE LET file == FirstFile(fileList)
                uploadId == UploadId(now, file)
            IN /\ upStarted < MaxUploads
               /\ uploads' = <<TempUpload(uploadId, file, upStarted + 1)>> \o uploads
               /\ upPending' = upPending \cup {[n |-> upStarted + 1, id |-> uploadId, file |-> file]}
               /\ upClock' = now
               /\ upStarted' = upStarted + 1
    /\ UploadFrame

\* handleFiles from the point where await upload(file) returns.
UploadReturns(req, response) ==
    /\ req \in upPending
    /\ upPending' = upPending \ {req}
    /\ uploads' = [i \in DOMAIN uploads |-> Completed(uploads[i], req.id, response)]
    /\ upLast' = [op |-> "returned", n |-> req.n, response |-> response]
    /\ UNCHANGED <<upClock, upStarted>>
    /\ UploadFrame

InitUpload ==
    /\ uploads = <<>>
    /\ upPending = {}
    /\ upClock = 1
    /\ upStarted = 0
    /\ upLast = [op |-> "init"]

NextUpload ==
    \/ \E fileList \in FileLists, now \in upClock..MaxUpClock : HandleFiles(fileList, now)
    \/ \E req \in upPending, response \in UploadResponses : UploadReturns(req, response)

(***************************************************************************)
(* Dark mode provider: the mount effect and toggleDarkMode.                 *)
(***************************************************************************)
MaxToggles == 5    \* toggles in one behaviour

\* String(newState)
BoolString(b) == IF b THEN "true" ELSE "false"

\* localStorage.getItem("dark-mode") === "true" || matchMedia(...).matches
MountDarkMode(stored, systemDark) == stored = "true" \/ systemDark

\* The provider mounts: the effect reads the stored value and the system
\* preference, sets isDark and the class of the document element.
DarkModeMount ==
    /\ ~dmMounted
    /\ dmMounted' = TRUE
    /\ isDark' = MountDarkMode(dmStored, dmSystemDark)
    /\ dmClass' = MountDarkMode(dmStored, dmSystemDark)
    /\ dmLast' = "mount"
    /\ UNCHANGED <<dmStored, dmSystemDark, dmToggles>>
    /\ DarkModeFrame

\* toggleDarkMode (its button is rendered once mounted).
ToggleDarkMode ==
    /\ dmMounted
    /\ dmToggles < MaxToggles
    /\ LET newState == ~isDark IN
       /\ isDark' = newState
       /\ dmStored' = BoolString(newState)
       /\ dmClass' = newState
    /\ dmToggles' = dmToggles + 1
    /\ dmLast' = "toggle"
    /\ UNCHANGED <<dmMounted, dmSystemDark>>
    /\ DarkModeFrame

\* The document is left (reload): the provider's state and the document's
\* class are gone, the stored value stays.
DarkModeUnmount ==
    /\ dmMounted
    /\ dmMounted' = FALSE
    /\ isDark' = FALSE
    /\ dmClass' = FALSE
    /\ dmLast' = "unmount"
    /\ UNCHANGED <<dmStored, dmSystemDark, dmToggles>>
    /\ DarkModeFrame

\* The system colour-scheme preference changes.
SystemPreference(dark) ==
    /\ dmSystemDark' = dark
    /\ dmLast' = "system"
    /\ UNCHANGED <<isDark, dmMounted, dmStored, dmClass, dmToggles>>
    /\ DarkModeFrame

InitDarkMode ==
    /\ isDark = FALSE
    /\ dmMounted = FALSE
    /\ dmStored = "none"
    /\ dmSystemDark = FALSE
    /\ dmClass = FALSE
    /\ dmLast = "init"
    /\ dmToggles = 0

NextDarkMode ==
    \/ DarkModeMount
    \/ ToggleDarkMode
    \/ DarkModeUnmount
    \/ \E dark \in BOOLEAN : SystemPreference(dark)

(***************************************************************************)
(* Analysis page: handleRunAnalysis and the query history.                  *)
(***************************************************************************)
HistoryCap == 8    \* next.slice(0, 8)

SUGGESTED_QUERIES ==
    <<"Show sales by city", "Top 5 products", "Revenue by quarter", "Customer analysis">>

\* Texts typed into the query field: a blank one, one with blanks around it,
\* and enough different ones for the history to outgrow its cap.
AnalysisQueries == {"  ", " hi ", "q2", "q3", "q4", "q5"}

\* Mutant: the new query is put first without removing its earlier entry.
NextHistoryNoFilter(prev, trimmed) ==
    LET next == <<trimmed>> \o prev
    IN SubSeq(next, 1, IF Len(next) < HistoryCap THEN Len(next) ELSE HistoryCap)

\* [trimmed, ...prev.filter((item) => item !== trimmed)].slice(0, 8)
NextHistory(prev, trimmed) ==
    LET next == <<trimmed>> \o SelectSeq(prev, LAMBDA item : item # trimmed)
    IN SubSeq(next, 1, IF Len(next) < HistoryCap THEN Len(next) ELSE HistoryCap)

\* The query field: onChange={(e) => setQuery(e.target.value)}
SetQuery(text) ==
    /\ anQuery' = text
    /\ UNCHANGED <<anHistory, isRunning, anPending, anResult, anError>>
    /\ AnalysisFrame

\* The "Clear history" button: setHistory([])
ClearHistory ==
    /\ anHistory' = <<>>
    /\ UNCHANGED <<anQuery, isRunning, anPending, anResult, anError>>
    /\ AnalysisFrame

\* handleClear (its button is disabled while running).
HandleClear ==
    /\ ~isRunning
    /\ anQuery' = ""
    /\ anResult' = Null
    /\ anError' = Null
    /\ UNCHANGED <<anHistory, isRunning, anPending>>
    /\ AnalysisFrame

\* handleRunAnalysis up to its await; the Run button is
\* disabled={isRunning || !query.trim()}.
HandleRunAnalysis ==
    /\ ~isRunning
    /\ Trim(anQuery) # ""
    /\ isRunning' = TRUE
    /\ anError' = Null
    /\ anPending' = anPending \cup {[trimmed |-> Trim(anQuery)]}
    /\ UNCHANGED <<anQuery, anHistory, anResult>>
    /\ AnalysisFrame

\* handleRunAnalysis from the point where await apiClient.runAnalysis
\* settles: the rest of the try block or the catch block, then finally.
AnalysisSettles(req, ok) ==
    /\ req \in anPending
    /\ anPending' = anPending \ {req}
    /\ IF ok
       THEN /\ anResult' = "response"
            /\ anHistory' = NextHistory(anHistory, req.trimmed)
            /\ UNCHANGED anError
       ELSE /\ anError' = "Failed to run analysis"
            /\ anResult' = Null
            /\ UNCHANGED anHistory
    /\ isRunning' = FALSE
    /\ UNCHANGED anQuery
    /\ AnalysisFrame

InitAnalysis ==
    /\ anQuery = ""
    /\ anHistory = SUGGESTED_QUERIES
    /\ isRunning = FALSE
    /\ anPending = {}
    /\ anResult = Null
    /\ anError = Null

NextAnalysis ==
    \/ \E text \in AnalysisQueries : SetQuery(text)
    \/ ClearHistory
    \/ HandleClear
    \/ HandleRunAnalysis
    \/ \E req \in anPending, ok \in BOOLEAN : AnalysisSettles(req, ok)

(***************************************************************************)
(* Initial state and the specification of each subsystem.                  *)
(***************************************************************************)
Init ==
    /\ InitProxy /\ InitChat /\ InitReport /\ InitViz /\ InitSettings /\ InitExplorer
    /\ InitUpload /\ InitDarkMode /\ InitAnalysis

SpecUpload == Init /\ [][NextUpload]_vars

SpecDarkMode == Init /\ [][NextDarkMode]_vars

SpecAnalysis == Init /\ [][NextAnalysis]_vars

SpecViz == Init /\ [][NextViz]_vars

SpecSettings == Init /\ [][NextSettings]_vars

SpecExplorer == Init /\ [][NextExplorer]_vars

NextChat ==
    \/ \E s \in InputTexts : TypeInput(s)
    \/ PressEnter
    \/ ClickSend
    \/ \E query \in SuggestedQueries : ClickSuggested(query)
    \/ \E req \in inflight, outcome \in ChatOutcomes, now \in clock..MaxClock :
          Reply(req, outcome, now)
    \/ ClearMessages

SpecChat == Init /\ [][NextChat]_vars

\* The chat panel as the pages of the application drive it: no component
\* calls clearMessages, so the log never becomes empty and the
\* suggested-query buttons (rendered while messages.length === 0) never show.
NextChatUI ==
    \/ \E s \in InputTexts : TypeInput(s)
    \/ PressEnter
    \/ ClickSend
    \/ \E req \in inflight, outcome \in ChatOutcomes, now \in clock..MaxClock :
          Reply(req, outcome, now)

SpecChatUI == Init /\ [][NextChatUI]_vars

\* The backend request of a send eventually resolves or rejects.
ReplyArrives ==
    \E req \in inflight, outcome \in ChatOutcomes, now \in clock..MaxClock : Reply(req, outcome, now)

SpecChatLive == Init /\ [][NextChatUI]_vars /\ WF_vars(ReplyArrives)

(***************************************************************************)
(* ChatProvider on its own: the operations of the context value, called    *)
(* by any consumer with any arguments.                                     *)
(***************************************************************************)
MaxAdds == 2       \* addMessage calls in one behaviour of the provider

\* Messages a consumer passes to addMessage (two share an identifier).
StoreMessages ==
    { [id |-> "2", role |-> "user", content |-> "hi", visualization |-> NoViz],
      [id |-> "2", role |-> "ai", content |-> "42 rows", visualization |-> "bar"],
      [id |-> "3", role |-> "ai", content |-> ApologyText, visualization |-> NoViz] }

\* Partial<ChatMessage> values a consumer passes to updateMessage.
Patches ==
    { [content |-> "edited"],
      [id |-> "3"],
      [content |-> "edited", visualization |-> NoViz] }

\* Identifiers a consumer passes to updateMessage ("9" is never in the log).
UpdateIds == {"2", "3", "9"}

\* { ...msg, ...patch }
Merge(msg, patch) ==
    [f \in DOMAIN msg \cup DOMAIN patch |-> IF f \in DOMAIN patch THEN patch[f] ELSE msg[f]]

\* Mutant: the map merges the patch into every message.
UpdateMessagePatchAll(prev, id, patch) ==
    [i \in DOMAIN prev |-> Merge(prev[i], patch)]

\* updateMessage: setMessages((prev) => prev.map((msg) => (msg.id === id ? { ...msg, ...patch } : msg)))
UpdateMessage(prev, id, patch) ==
    [i \in DOMAIN prev |-> IF prev[i].id = id THEN Merge(prev[i], patch) ELSE prev[i]]

StoreUnchanged == <<input, isLoading, inflight, clock, nextSend, escaped>>

\* A consumer calls addMessage(message).
StoreAdd(message) ==
    /\ nextSeq < MaxAdds
    /\ messages' = AddMessage(messages,
            [id |-> message.id, role |-> message.role, content |-> message.content,
             visualization |-> message.visualization, seq |-> nextSeq + 1, send |-> 0])
    /\ nextSeq' = nextSeq + 1
    /\ lastOp' = [op |-> "add"]
    /\ UNCHANGED conversationId
    /\ UNCHANGED StoreUnchanged
    /\ ChatFrame

\* A consumer calls updateMessage(id, patch).
StoreUpdate(id, patch) ==
    /\ messages' = UpdateMessage(messages, id, patch)
    /\ lastOp' = [op |-> "update", id |-> id, patch |-> patch]
    /\ UNCHANGED <<conversationId, nextSeq>>
    /\ UNCHANGED StoreUnchanged
    /\ ChatFrame

NextStore ==
    \/ \E message \in StoreMessages : StoreAdd(message)
    \/ \E id \in UpdateIds, patch \in Patches : StoreUpdate(id, patch)
    \/ ClearMessages

SpecStore == Init /\ [][NextStore]_vars

NextReport ==
    \/ \E value \in ReportTypes : SetReportType(value)
    \/ \E value \in TimePeriods : SetTimePeriod(value)
    \/ \E text \in InputTexts : SetNotes(text)
    \/ HandleGenerate
    \/ \E outcome \in TaskScripts \cup {CreateFailed} : CreateSettles(outcome)
    \/ PollSettles

SpecReport == Init /\ [][NextReport]_vars

\* The query handleGenerate builds is never blank, so its `!query.trim()`
\* return is never taken (the case C10 is about does not occur).
QueryNeverBlank ==
    /\ ~QueryBlank(BuildQuery(reportType, timePeriod, notes))
    /\ rpLast # "blank"

NextProxy ==
    \/ \E route \in Routes, reqBody \in ReqBodies : PxRequest(route, reqBody)
    \/ \E outcome \in BackendOutcomes : PxSettle(outcome)
    \/ PxDone

SpecProxy == Init /\ [][NextProxy]_vars

\* The backend did not answer the forwarded request with a 2xx response.
PxBackendFailed == pxBackend.net \/ ~ResponseOk(pxBackend.status)

\* C1: in every proxy handler, when the backend answers non-2xx or the fetch
\* fails at the network level, the handler returns {error: <the route's fixed
\* message>} with status 500; neither the backend's status nor its body is in
\* the response.
C1_FailureEnvelope ==
    (pxPc = "done" /\ pxFetches = 1 /\ PxBackendFailed) =>
        /\ pxResp.status = 500
        /\ pxResp.body = [k |-> "error", v |-> ErrorMessage(pxRoute)]

C1_Witness ==
    /\ pxPc = "done" /\ pxFetches = 1 /\ pxRoute = "reportStatus"
    /\ ~pxBackend.net /\ pxBackend.status = 404
    /\ pxBackend.raw = "{\"error\":\"db down\"}"
    /\ pxResp = ErrorEnvelope("reportStatus")

\* C2: in every proxy handler, a 2xx backend response with a JSON body is
\* returned to the caller as exactly that JSON value with a success status.
C2_SuccessPassThrough ==
    (pxPc = "done" /\ pxFetches = 1 /\ ~pxBackend.net
        /\ ResponseOk(pxBackend.status) /\ JsonParse(pxBackend.raw).ok) =>
        /\ ResponseOk(pxResp.status)
        /\ pxResp.body = JsonParse(pxBackend.raw).val

C2_Witness ==
    /\ pxPc = "done" /\ pxRoute = "upload" /\ pxBackend.status = 201
    /\ pxBackend.raw = "{ \"tables\" : \"t1\" }"
    /\ pxResp = [status |-> 200, body |-> [k |-> "tables", v |-> "t1"]]

\* C3: a backend 503 for a table-information request yields
\* {error: "Failed to fetch table information"} with status 500, never 503.
C3_Tables503 ==
    (pxPc = "done" /\ pxRoute = "tables" /\ ~pxBackend.net /\ pxBackend.status = 503) =>
        /\ pxResp.body = [k |-> "error", v |-> "Failed to fetch table information"]
        /\ pxResp.status = 500
        /\ pxResp.status # 503

C3_Witness ==
    /\ pxPc = "done" /\ pxRoute = "tables" /\ ~pxBackend.net /\ pxBackend.status = 503
    /\ pxResp.status = 500

(***************************************************************************)
(* Chat session properties, checked under SpecChat.                        *)
(***************************************************************************)
Last(seq) == seq[Len(seq)]

\* C4: after every sequence of addMessage calls made by the send flow, starting
\* from the log holding the welcome message "1", the log lists the messages in
\* call order and no identifier occurs twice.
C4_CallOrderAndUniqueIds ==
    /\ \A i, j \in DOMAIN messages : i < j => messages[i].seq < messages[j].seq
    /\ \A i, j \in DOMAIN messages : i # j => messages[i].id # messages[j].id

\* C5: clearMessages() leaves an empty log and a null conversation identifier,
\* whatever the state it is called in.
C5_ClearEmpties ==
    lastOp.op = "clear" => (messages = <<>> /\ conversationId = Null)

C5_Witness ==
    /\ lastOp.op = "clear" /\ lastOp.hadMessages >= 2 /\ lastOp.hadId
    /\ inflight # {}
    /\ messages = <<>> /\ conversationId = Null

\* C6: once the conversation identifier is c it stays c, and every request
\* issued carries it, until clearMessages(); clearMessages() makes it null and
\* it stays null until a backend response assigns one.
C6_ConversationIdKept ==
    [][/\ (conversationId # Null /\ lastOp'.op # "clear") => conversationId' = conversationId
       /\ \A req \in inflight' \ inflight : req.conversationId = conversationId
       /\ lastOp'.op = "clear" => conversationId' = Null
       /\ (conversationId = Null /\ lastOp'.op # "reply") => conversationId' = Null]_vars

\* In the log, a user message comes before the assistant message of the same send.
UserPrecedesAssistant ==
    \A i, j \in DOMAIN messages :
        (messages[i].role = "user" /\ messages[j].role = "ai"
            /\ messages[i].send = messages[j].send) => i < j

\* C7: when a send issues its backend request the log already holds the user
\* message of that send, and in the log each user message precedes the
\* assistant message produced for the same send.
C7_UserMessageFirst ==
    [][/\ \A req \in inflight' \ inflight :
            \E i \in DOMAIN messages' :
                /\ messages'[i].role = "user"
                /\ messages'[i].send = req.send
                /\ messages'[i].content = req.message
       /\ UserPrecedesAssistant']_vars

C7_Witness ==
    /\ Cardinality(inflight) = 1
    /\ \E i, j \in DOMAIN messages :
          /\ i < j
          /\ messages[i].role = "user" /\ messages[j].role = "ai"
          /\ messages[i].send = messages[j].send
    /\ Last(messages).role = "user"

\* The outcome is a 2xx response whose body parses to a JSON value other than null.
ReplySucceeds(outcome) ==
    ~outcome.net /\ ResponseOk(outcome.status) /\ outcome.body.kind = "object"

\* C8 (as amended): every send whose backend request completes appends exactly
\* one assistant message.  On a 2xx response whose body parses to a JSON value
\* other than null it carries the backend's response text, or "No response from
\* AI" when that text is absent or empty, and the backend's visualization; on a
\* non-2xx response, a network failure, an unparseable body or a null body it is
\* the fixed apology.  No error escapes the handler.
C8_OneAssistantMessage ==
    [][lastOp'.op = "reply" =>
        LET outcome == lastOp'.outcome
            added == Last(messages')
        IN  /\ Len(messages') = Len(messages) + 1
            /\ SubSeq(messages', 1, Len(messages)) = messages
            /\ added.role = "ai" /\ added.send = lastOp'.send
            /\ IF ReplySucceeds(outcome)
               THEN /\ added.content = IF outcome.body.response = "" THEN NoResponseText
                                       ELSE outcome.body.response
                    /\ added.visualization = outcome.body.visualization
               ELSE /\ added.content = ApologyText
                    /\ added.visualization = NoViz
            /\ ~escaped']_vars

C8_Witness ==
    /\ lastOp.op = "reply"
    /\ ReplySucceeds(lastOp.outcome) /\ lastOp.outcome.body.response = ""
    /\ Last(messages).content = NoResponseText
    /\ Cardinality({i \in DOMAIN messages : messages[i].send = lastOp.send /\ messages[i].role = "ai"}) = 1

\* C8 as stated: on every 2xx response with a parseable body the assistant
\* message carries the backend's response text and visualization; otherwise it
\* is the apology.
C8_Original ==
    [][lastOp'.op = "reply" =>
        LET outcome == lastOp'.outcome
            added == Last(messages')
        IN  /\ Len(messages') = Len(messages) + 1
            /\ added.role = "ai" /\ added.send = lastOp'.send
            /\ IF ~outcome.net /\ ResponseOk(outcome.status) /\ outcome.body.kind # "garbage"
               THEN /\ added.content = outcome.body.response
                    /\ added.visualization = outcome.body.visualization
               ELSE /\ added.content = ApologyText
                    /\ added.visualization = NoViz
            /\ ~escaped']_vars


(***************************************************************************)
(* ChatProvider properties, checked under SpecStore.                       *)
(***************************************************************************)
\* C9: updateMessage(id, patch) merges the patch fields into the message(s)
\* whose identifier equals id and leaves every other message unchanged; when no
\* message has that identifier the log is unchanged; the number and order of
\* the messages never change.
C9_UpdateMerges ==
    [][lastOp'.op = "update" =>
        LET id == lastOp'.id
            patch == lastOp'.patch
        IN  /\ Len(messages') = Len(messages)
            /\ \A i \in DOMAIN messages :
                 /\ messages'[i].seq = messages[i].seq
                 /\ messages[i].id # id => messages'[i] = messages[i]
                 /\ messages[i].id = id =>
                      /\ \A f \in DOMAIN patch : messages'[i][f] = patch[f]
                      /\ \A f \in DOMAIN messages[i] \ DOMAIN patch :
                            messages'[i][f] = messages[i][f]
            /\ (\A i \in DOMAIN messages : messages[i].id # id) => messages' = messages]_vars

C9_Witness ==
    /\ lastOp.op = "update" /\ lastOp.id = "2" /\ lastOp.patch = [content |-> "edited"]
    /\ Len(messages) = 3
    /\ messages[1] = WelcomeMessage
    /\ messages[2].id = "2" /\ messages[2].content = "edited" /\ messages[2].role = "user"
    /\ messages[3].id = "3" /\ messages[3].content = ApologyText

(***************************************************************************)
(* Report generation properties, checked under SpecReport.                  *)
(***************************************************************************)
\* C11: for the task that reports generating(40), generating(90) and then
\* succeeded with a file location X, the client reaches exactly one terminal
\* state, in which generating is cleared and the download is enabled
\* (status.fileUrl is X), and it issues no status request after the terminal
\* response: three status requests in all.
C11_OneTerminalState ==
    /\ rpTerminals <= 1
    /\ rpPolls <= Len(rpTask)
    /\ (rpTask = Script4090 /\ rpScript = <<>>) =>
          /\ rpPc = "done"
          /\ ~generating
          /\ rpTerminals = 1
          /\ DownloadEnabled
          /\ rpStatus.fileUrl = "X"
          /\ rpPolls = 3

C11_Witness ==
    /\ rpTask = Script4090
    /\ rpPc = "done"
    /\ rpStatus = StatusSucceeded("X")
    /\ rpPolls = 3

\* C19: a generate action invoked while generating is true does not call
\* generateReport, and a call sets generating, so no second call is issued
\* between a call and the clearing of generating.
C19_OneGenerationInFlight ==
    [][ /\ generating => rpCalls' = rpCalls
        /\ rpCalls' # rpCalls => (generating' /\ rpCalls' = rpCalls + 1)
        /\ (generating /\ rpLast' = "busy") => UNCHANGED <<generating, rpHook>> ]_vars

C19_Witness ==
    /\ rpLast = "busy"
    /\ generating
    /\ rpCalls = 1

(***************************************************************************)
(* Visualization preview properties, checked under SpecViz.                 *)
(***************************************************************************)
\* The keys of the first row (none for a null row).
FirstRowKeys == IF vzData.rows[1].null THEN <<>> ELSE vzData.rows[1].keys

\* The mapping the configuration gives.
ExplicitLabel == IF vzConfig.labelKey # NoKey THEN vzConfig.labelKey ELSE vzConfig.xKey
ExplicitValue == IF vzConfig.valueKey # NoKey THEN vzConfig.valueKey ELSE vzConfig.yKey
NoMapping == ExplicitLabel = NoKey /\ ExplicitValue = NoKey

VizRendered == vzView # NoView
VizHasRows == vzData.array /\ Len(vzData.rows) > 0

\* C12: for a non-empty row list the category field is the explicit mapping
\* (labelKey, else xKey) when given, else the first key of the first row; the
\* value field is the explicit mapping (valueKey, else yKey) when given, else
\* the first key of the first row that differs from the category field.  Rows
\* [{country, sales}] with no mapping resolve to country / sales.
C12_FieldResolution ==
    (VizRendered /\ VizHasRows) =>
        /\ ExplicitLabel # NoKey => vzView.labelKey = ExplicitLabel
        /\ (ExplicitLabel = NoKey /\ Len(FirstRowKeys) > 0) => vzView.labelKey = FirstRowKeys[1]
        /\ ExplicitValue # NoKey => vzView.valueKey = ExplicitValue
        /\ ExplicitValue = NoKey =>
              \A i \in 1..Len(FirstRowKeys) :
                  ( /\ FirstRowKeys[i] # vzView.labelKey
                    /\ \A j \in 1..(i - 1) : FirstRowKeys[j] = vzView.labelKey )
                  => vzView.valueKey = FirstRowKeys[i]
        /\ (FirstRowKeys = <<"country", "sales">> /\ NoMapping) =>
              /\ vzView.view = "chart"
              /\ vzView.labelKey = "country"
              /\ vzView.valueKey = "sales"

C12_Witness ==
    /\ VizRendered
    /\ VizHasRows
    /\ FirstRowKeys = <<"country", "sales">>
    /\ NoMapping
    /\ vzView.labelKey = "country"
    /\ vzView.valueKey = "sales"

\* C13: data that is an empty array, or not an array, renders the
\* "Visualization data unavailable" placeholder; no key is resolved and no
\* exception is raised.
C13_EmptyDataPlaceholder ==
    (VizRendered /\ ~VizHasRows) =>
        /\ vzView.view = "unavailable"
        /\ ~vzView.keysRead
        /\ vzView.labelKey = NoKey
        /\ vzView.valueKey = NoKey

C13_Witness ==
    /\ VizRendered
    /\ ~vzData.array
    /\ vzView.view = "unavailable"

\* C14: the resolution is total: every render ends with the placeholder, with
\* a (category, value) pair and a chart, or with "Cannot determine
\* visualization fields".  A first row with exactly one key and no mapping
\* gives value field = category field and a chart; a first row with no keys
\* (or null) and no mapping gives "Cannot determine".
C14_ResolutionTotal ==
    VizRendered =>
        /\ vzView.view \in {"unavailable", "cannot", "chart"}
        /\ vzView.view = "chart" => (vzView.labelKey # NoKey /\ vzView.valueKey # NoKey)
        /\ vzView.view = "cannot" => (vzView.labelKey = NoKey \/ vzView.valueKey = NoKey)
        /\ (VizHasRows /\ NoMapping /\ Len(FirstRowKeys) = 1) =>
              /\ vzView.view = "chart"
              /\ vzView.labelKey = FirstRowKeys[1]
              /\ vzView.valueKey = vzView.labelKey
        /\ (VizHasRows /\ NoMapping /\ Len(FirstRowKeys) = 0) => vzView.view = "cannot"

C14_Witness ==
    /\ VizRendered
    /\ VizHasRows
    /\ NoMapping
    /\ FirstRowKeys = <<"country">>
    /\ vzView.view = "chart"
    /\ vzView.valueKey = "country"

(***************************************************************************)
(* Settings page properties, checked under SpecSettings.                    *)
(***************************************************************************)
\* C15: after the mount of the settings page, when local storage holds a
\* parseable settings object the settings are the defaults overridden field
\* by field by the stored object; when nothing is stored they are the defaults.
C15_LoadMergesOverDefaults ==
    stLast = "mount" =>
        /\ stStorage.kind = "object" =>
              /\ DOMAIN stSettings = DOMAIN DEFAULT_SETTINGS \cup DOMAIN stStorage.obj
              /\ \A f \in DOMAIN stSettings :
                    stSettings[f] = IF f \in DOMAIN stStorage.obj THEN stStorage.obj[f]
                                    ELSE DEFAULT_SETTINGS[f]
        /\ stStorage.kind = "none" => stSettings = DEFAULT_SETTINGS

C15_Witness ==
    /\ stLast = "mount"
    /\ stStorage = JsonStringify([language |-> "es", apiKey |-> "k1"])
    /\ stSettings.language = "es"
    /\ stSettings.theme = "system"

(***************************************************************************)
(* More proxy properties, checked under SpecProxy.                          *)
(***************************************************************************)
\* C16: a handler issues at most one backend request per incoming request;
\* after a failed backend request it returns the error envelope and has
\* made no second request.
C16_OneBackendRequest ==
    /\ pxFetches <= 1
    /\ pxPc = "fetching" => pxFetches = 1
    /\ (pxPc # "idle" /\ pxBackend # NoOutcome /\ PxBackendFailed) =>
          /\ pxPc = "done"
          /\ pxFetches = 1
          /\ pxResp = ErrorEnvelope(pxRoute)

C16_Witness ==
    /\ pxPc = "done"
    /\ pxRoute = "upload"
    /\ pxBackend = NetworkFault
    /\ pxFetches = 1
    /\ pxResp = ErrorEnvelope("upload")

(***************************************************************************)
(* Data explorer properties, checked under SpecExplorer.                    *)
(***************************************************************************)
\* C17: every failure of an explorer request (table list or table detail; a
\* network fault or the proxy's {error} + 500 envelope) ends in the error
\* state: error is not null.
C17_FailureShowsError == exFailed => exError # Null

C20_EmptySendNoOp ==
    [][ /\ (lastOp'.op = "send" /\ ~lastOp'.sent) =>
              UNCHANGED <<messages, input, isLoading, inflight, conversationId, nextSend>>
        /\ (lastOp'.op = "send" /\ lastOp'.sent /\ nextSend' # nextSend) =>
              /\ Trim(Last(messages').content) # ""
              /\ Cardinality(inflight') = Cardinality(inflight) + 1 ]_vars

C20_Witness ==
    /\ lastOp = [op |-> "send", sent |-> FALSE]
    /\ input = "  "
    /\ ~isLoading
    /\ inflight = {}

\* C22 (under SpecChat): when a chat send fails (network fault or non-2xx
\* response, whatever its body), conversationId is unchanged, the messages
\* already in the log are unchanged and the log grows by the apology message
\* only.
C22_FailedSendFrame ==
    [][ ( /\ lastOp'.op = "reply"
          /\ nextSeq' # nextSeq
          /\ (lastOp'.outcome.net \/ ~ResponseOk(lastOp'.outcome.status)) ) =>
        /\ conversationId' = conversationId
        /\ Len(messages') = Len(messages) + 1
        /\ SubSeq(messages', 1, Len(messages)) = messages
        /\ Last(messages').role = "ai"
        /\ Last(messages').content = ApologyText ]_vars

C22_Witness ==
    /\ lastOp.op = "reply"
    /\ lastOp.outcome.status = 500
    /\ lastOp.outcome.body.conversationId = "c2"
    /\ conversationId = "c1"
    /\ Len(messages) >= 4
    /\ Last(messages).content = ApologyText

\* C23 (under SpecChatLive, where the backend request of a send eventually
\* resolves or rejects): a send that sets isLoading is followed by a state in
\* which isLoading is false, after the success path and after the failure path.
C23_LoadingEventuallyClears == isLoading ~> ~isLoading

C23_Witness ==
    /\ lastOp.op = "reply"
    /\ lastOp.outcome = ChatFault
    /\ ~isLoading
    /\ inflight = {}
    /\ nextSend = 1

\* C24 (under SpecExplorer): once no table-detail request is outstanding, the
\* table data shown is the response of the request made for the selected table.
C24_DataOfSelectedTable ==
    ( /\ \A req \in exPending : req.kind # "detail"
      /\ exError = Null
      /\ exTableData.kind = "detail" ) =>
        exTableData.table = exSelected

\* C28 (under SpecSettings): a mount after a successful handleSave of S yields
\* S; handleReset leaves no stored item and a mount after it yields the
\* defaults; a stored item that is not parseable yields the defaults.
C28_SettingsRoundTrip ==
    /\ stLast = "save" => stStorage = JsonStringify(stSettings)
    /\ stLast = "reset" => (stStorage = NoItem /\ stSettings = DEFAULT_SETTINGS)
    /\ stOrigin = "save" => stStorage.kind = "object"
    /\ stOrigin = "reset" => stStorage = NoItem
    /\ stLast = "mount" =>
          /\ stOrigin = "save" => stSettings = stStorage.obj
          /\ stOrigin = "reset" => stSettings = DEFAULT_SETTINGS
          /\ stStorage = BadItem => stSettings = DEFAULT_SETTINGS

C28_Witness ==
    /\ stLast = "mount"
    /\ stOrigin = "save"
    /\ stSettings.theme = "dark"
    /\ stSettings.apiKey = "k1"
    /\ stSettings.autoReports = TRUE

\* C29 (under SpecProxy): a POST whose request body cannot be parsed gets the
\* error envelope and no request goes to the backend; a 2xx backend response
\* whose body is not valid JSON gets the error envelope, not a success
\* response.
C29_BodyFailureEnvelope ==
    /\ (pxPc # "idle" /\ pxRoute \in BodyRoutes /\ pxReqBody = "malformed") =>
          /\ pxPc = "done"
          /\ pxFetches = 0
          /\ pxBackend = NoOutcome
          /\ pxResp = ErrorEnvelope(pxRoute)
    /\ ( /\ pxPc = "done" /\ pxFetches = 1
         /\ ~pxBackend.net /\ ResponseOk(pxBackend.status)
         /\ ~JsonParse(pxBackend.raw).ok ) =>
          pxResp = ErrorEnvelope(pxRoute)

C29_Witness ==
    /\ pxPc = "done"
    /\ pxRoute = "analysis"
    /\ pxReqBody = "malformed"
    /\ pxFetches = 0
    /\ pxResp = ErrorEnvelope("analysis")

\* C21 (under SpecUpload): handleFiles with a null or an empty file list
\* starts no upload and adds no entry to the recent uploads; with a non-empty
\* list it starts one upload, of the first file of the list, and adds exactly
\* one entry, for that file.
C21_OnlyFirstFileUploaded ==
    [][ upLast'.op = "files" =>
          IF upLast'.list.null \/ upLast'.list.files = <<>>
          THEN UNCHANGED <<uploads, upPending, upStarted>>
          ELSE /\ Len(uploads') = Len(uploads) + 1
               /\ Tail(uploads') = uploads
               /\ Head(uploads').name = upLast'.list.files[1]
               /\ upStarted' = upStarted + 1
               /\ \E req \in upPending' \ upPending :
                     /\ upPending' = upPending \cup {req}
                     /\ req.file = upLast'.list.files[1] ]_vars

C21_Witness ==
    /\ upLast.op = "files"
    /\ upLast.list.files = <<"a.csv", "b.csv">>
    /\ upStarted = 1
    /\ Len(uploads) = 1
    /\ uploads[1].name = "a.csv"
    /\ \E req \in upPending : req.file = "a.csv"

\* C25 (under SpecDarkMode): after a toggle stored a value under "dark-mode",
\* a mount sets isDark to the stored value, whatever the system colour-scheme
\* preference is.
C25_MountRestoresChoice ==
    (dmLast = "mount" /\ dmStored # "none") => (isDark = (dmStored = "true"))

\* Sequences without a repeated entry.
NoDuplicates(seq) ==
    \A i, j \in DOMAIN seq : seq[i] = seq[j] => i = j

\* C26 (under SpecAnalysis): the query history never holds a duplicate entry
\* nor more than 8 entries; a run that succeeds puts its trimmed query first
\* and keeps the other entries in their previous relative order (dropping
\* entries only from the end, and only at the cap), and a run that fails
\* leaves the history as it was.
C26_HistoryDiscipline ==
    [][ /\ NoDuplicates(anHistory) /\ Len(anHistory) <= HistoryCap
        /\ NoDuplicates(anHistory') /\ Len(anHistory') <= HistoryCap
        /\ (isRunning /\ ~isRunning') =>
              IF anResult' = "response"
              THEN \E req \in anPending :
                     LET kept == SelectSeq(anHistory, LAMBDA item : item # req.trimmed)
                         rest == Tail(anHistory')
                     IN /\ Head(anHistory') = req.trimmed
                        /\ req.trimmed # ""
                        /\ Len(rest) <= Len(kept)
                        /\ rest = SubSeq(kept, 1, Len(rest))
                        /\ Len(rest) = Len(kept) \/ Len(anHistory') = HistoryCap
              ELSE anHistory' = anHistory ]_vars

C26_Witness ==
    /\ ~isRunning
    /\ anResult = "response"
    /\ Len(anHistory) = HistoryCap
    /\ anHistory[1] = "hi"
    /\ anHistory[2] = "q5"
    /\ anHistory[HistoryCap] = "Revenue by quarter"

\* C27 (under SpecUpload): the return of an upload call changes the entry of
\* that upload, from "processing" to "success" with the response's table name
\* and row count or to "error" when there was no response, and changes no
\* other entry; a new entry is "processing" and at the head of the list.
C27_OneEntryPerCompletion ==
    [][ /\ (upLast'.op = "files" /\ uploads' # uploads) =>
              /\ Head(uploads').status = "processing"
              /\ Tail(uploads') = uploads
        /\ (upLast'.op = "returned" /\ upPending' # upPending) =>
              /\ Len(uploads') = Len(uploads)
              /\ \A i \in DOMAIN uploads :
                    IF uploads[i].n = upLast'.n
                    THEN /\ uploads[i].status = "processing"
                         /\ uploads'[i] =
                              IF upLast'.response.any
                              THEN [uploads[i] EXCEPT !.status = "success",
                                                      !.tableName = upLast'.response.tableName,
                                                      !.rows = upLast'.response.rowsUploaded]
                              ELSE [uploads[i] EXCEPT !.status = "error"]
                    ELSE uploads'[i] = uploads[i] ]_vars

====
